---- MODULE Spec2Model ----
(***************************************************************************)
(* The translation gateway of Hyggshi-language-translation: the POST       *)
(* /translate handler of its three deployments, the production worker      *)
(* (src/Index.js 27-175), the debug worker (src/Index.js 187-412) and the  *)
(* Express server (src/server.js).                                         *)
(*                                                                         *)
(* JavaScript strings are TLA+ strings.  A JavaScript value is a record    *)
(* [t, v]: t is its type and v the string it converts to in a template     *)
(* literal.  A handler runs without interruption from one await to the     *)
(* next, so an action is the code between two suspension points.           *)
(***************************************************************************)
EXTENDS Integers, Sequences, FiniteSets, TLC

\* ------------------------------------------------------------------ bounds

\* Number of POST /translate requests a behaviour holds.
NumReq == 2

\* The length limit of `text` (text.length > 1000).
MaxTextLength == 1000

Requests == 1..NumReq

\* ------------------------------------------------------- JavaScript values

Str(s) == [t |-> "string", v |-> s]

Undefined == [t |-> "undefined", v |-> "undefined"]

\* Object.prototype.constructor, what obj['constructor'] evaluates to for an
\* object literal that has no such key of its own.
ObjectConstructor == [t |-> "function", v |-> "function Object() { [native code] }"]

\* !!x
Truthy(x) == IF x.t = "string" THEN Len(x.v) > 0 ELSE x.t # "undefined"

\* `${x}`
TemplateString(x) == x.v

\* What JSON.stringify keeps of an object's property: a property whose value
\* is undefined or a function is left out of the JSON text.
JSONProperty(x) == IF x.t \in {"undefined", "function"} THEN Undefined ELSE x

RECURSIVE Repeat(_, _)
Repeat(c, n) == IF n = 0 THEN ""
                ELSE IF n % 2 = 0 THEN LET h == Repeat(c, n \div 2) IN h \o h
                ELSE c \o Repeat(c, n - 1)

\* String.prototype.includes
Includes(s, p) == \E i \in 1..(Len(s) - Len(p) + 1) : SubSeq(s, i, i + Len(p) - 1) = p

WhiteSpace == {" ", "\n", "\t"}

RECURSIVE TrimStart(_)
TrimStart(s) == IF Len(s) > 0 /\ SubSeq(s, 1, 1) \in WhiteSpace
                THEN TrimStart(SubSeq(s, 2, Len(s)))
                ELSE s

RECURSIVE TrimEnd(_)
TrimEnd(s) == IF Len(s) > 0 /\ SubSeq(s, Len(s), Len(s)) \in WhiteSpace
              THEN TrimEnd(SubSeq(s, 1, Len(s) - 1))
              ELSE s

\* String.prototype.trim
Trim(s) == TrimEnd(TrimStart(s))

\* ------------------------------------------------------- the language table

\* languageNames of the two workers (20 codes).
WorkerLanguageNames ==
    [es |-> "Spanish", fr |-> "French", de |-> "German", ja |-> "Japanese",
     zh |-> "Chinese", ko |-> "Korean", it |-> "Italian", pt |-> "Portuguese",
     ru |-> "Russian", ar |-> "Arabic", vi |-> "Vietnamese", th |-> "Thai",
     nl |-> "Dutch", pl |-> "Polish", tr |-> "Turkish", sv |-> "Swedish",
     no |-> "Norwegian", da |-> "Danish", fi |-> "Finnish", hi |-> "Hindi"]

\* languageNames of the Express server (10 codes).
ServerLanguageNames ==
    [es |-> "Spanish", fr |-> "French", de |-> "German", ja |-> "Japanese",
     zh |-> "Chinese", ko |-> "Korean", it |-> "Italian", pt |-> "Portuguese",
     ru |-> "Russian", ar |-> "Arabic"]

\* The property names every object literal inherits from Object.prototype
\* (the ones the inputs of this model use).
InheritedKeys == {"constructor"}

\* languageNames[targetLanguage]: a property read of an object literal, own
\* keys first and then the prototype chain.
PropertyRead(table, key) ==
    IF key.t # "string" THEN Undefined
    ELSE IF key.v \in DOMAIN table THEN Str(table[key.v])
    ELSE IF key.v \in InheritedKeys THEN ObjectConstructor
    ELSE Undefined

\* languageNames[targetLanguage] || targetLanguage
TargetLangName(table, targetLanguage) ==
    LET found == PropertyRead(table, targetLanguage)
    IN  IF Truthy(found) THEN found ELSE targetLanguage

\* ------------------------------------------------------ requests, responses

\* What request.json() (the workers) or express.json() (the server) makes of
\* the request body: the text is no JSON, or it is JSON null, or it is an
\* object whose text and targetLanguage are as given (Undefined: absent).
Body(json, text, targetLanguage) ==
    [json |-> json, text |-> text, targetLanguage |-> targetLanguage]

MalformedBody == Body("malformed", Undefined, Undefined)

NullBody == Body("null", Undefined, Undefined)

Hello == Str("Hello")

AtLimit == Str(Repeat("a", MaxTextLength))

OverLimit == Str(Repeat("a", MaxTextLength + 1))

Bodies ==
    { MalformedBody, NullBody,
      Body("object", Str(""), Str("fr")),
      Body("object", Hello, Undefined),
      Body("object", OverLimit, Undefined),
      Body("object", OverLimit, Str("fr")),
      Body("object", OverLimit, Str("xx")),
      Body("object", Hello, Str("fr")),
      Body("object", Hello, Str("vi")),
      Body("object", Hello, Str("constructor")),
      Body("object", AtLimit, Str("xx")) }

\* The message of the SyntaxError request.json() throws.
SyntaxErrorMessage == "Unexpected token } in JSON at position 1"

\* The message of the TypeError `const { text, targetLanguage } = null` throws.
TypeErrorMessage == "Cannot destructure property 'text' of 'body' as it is null."

\* The fields of a response the handlers set, the HTTP status first and the
\* properties of the JSON text after it (Undefined: the JSON has no such
\* property).  Headers, solution, errorType, timestamp and processingTime
\* are left out.
Response(status, error, details, errorCode, translation, sourceText, targetLanguage) ==
    [status |-> status, error |-> JSONProperty(error), details |-> JSONProperty(details),
     errorCode |-> JSONProperty(errorCode), translation |-> JSONProperty(translation),
     sourceText |-> JSONProperty(sourceText),
     targetLanguage |-> JSONProperty(targetLanguage)]

ErrorResponse(status, error, details, errorCode) ==
    Response(status, Str(error), details, errorCode, Undefined, Undefined, Undefined)

\* The handler's locals that live across the await of generateContent.
Frame(text, targetLangName, prompt) ==
    [text |-> text, targetLangName |-> targetLangName, prompt |-> prompt]

NoFrame == Frame(Undefined, Undefined, "")

\* What the provider's client did for a request: `from` is the call (none
\* yet, the client's initialisation, generateContent and the read of its
\* response), thrown whether it threw, message the error's message and text
\* what response.text() returned.
Outcome(from, thrown, message, text) ==
    [from |-> from, thrown |-> thrown, message |-> message, text |-> text]

NoOutcome == Outcome("none", FALSE, "", "")

InitOk == Outcome("init", FALSE, "", "")

InitOutcomes ==
    { InitOk,
      Outcome("init", TRUE, "api_key must be set", ""),
      Outcome("init", TRUE, "model name is required", "") }

GenerateOutcomes ==
    { Outcome("generateContent", FALSE, "", " Bonjour \n"),
      Outcome("generateContent", TRUE, "API key not valid", ""),
      Outcome("generateContent", TRUE, "quota exceeded", ""),
      Outcome("generateContent", TRUE, "generateContent: [400] API key not valid", ""),
      Outcome("generateContent", TRUE, "fetch failed", "") }

\* The result of the handler's run up to its first suspension: it has
\* responded, or it has called generateContent(frame.prompt) and waits.
Responded(response) ==
    [responded |-> TRUE, response |-> response, frame |-> NoFrame, outcome |-> NoOutcome]

\* It has responded because the client's initialisation threw.
InitFailed(response, init) ==
    [responded |-> TRUE, response |-> response, frame |-> NoFrame, outcome |-> init]

Called(frame) ==
    [responded |-> FALSE,
     response |-> ErrorResponse(0, "", Undefined, Undefined),
     frame |-> frame, outcome |-> NoOutcome]

\* ------------------------------------------------------------ the handlers

\* !text || !targetLanguage
MissingFields(body) == ~Truthy(body.text) \/ ~Truthy(body.targetLanguage)

\* text.length >= 1000: the limit taken one short.
TooLongInclusive(text) == Len(text.v) >= MaxTextLength

\* text.length > 1000
TooLong(text) == Len(text.v) > MaxTextLength

\* The prompt of the two workers.
WorkerPrompt(targetLangName, text) ==
    "Translate the following text to " \o TemplateString(targetLangName)
    \o ". Only provide the translation, no explanations or additional text:\n"
    \o TemplateString(text)

\* The prompt of the Express server (an empty line before the text).
ServerPrompt(targetLangName, text) ==
    "Translate the following text to " \o TemplateString(targetLangName)
    \o ". Only provide the translation, no explanations or additional text:\n\n"
    \o TemplateString(text)

\* The success response of the production worker and of the server.
TranslationResult(translation, frame) ==
    Response(200, Undefined, Undefined, Undefined,
             Str(translation), frame.text, frame.targetLangName)

\* The catch of the production worker and of the server.
TranslationFailed(message) ==
    ErrorResponse(500, "Translation failed", Str(message), Undefined)

\* Production worker, from the request to the call of generateContent.
ProductionFetch(table, body, init) ==
    IF body.json = "malformed" THEN Responded(TranslationFailed(SyntaxErrorMessage))
    ELSE IF body.json = "null" THEN Responded(TranslationFailed(TypeErrorMessage))
    ELSE IF MissingFields(body)
    THEN Responded(ErrorResponse(400, "Missing required fields: text and targetLanguage",
                                 Undefined, Undefined))
    ELSE IF TooLong(body.text)
    THEN Responded(ErrorResponse(400, "Text too long (max 1000 characters)",
                                 Undefined, Undefined))
    ELSE LET targetLangName == TargetLangName(table, body.targetLanguage)
         IN  IF init.thrown THEN InitFailed(TranslationFailed(init.message), init)
             ELSE Called(Frame(body.text, targetLangName,
                               WorkerPrompt(targetLangName, body.text)))

\* Production worker, from the settling of generateContent to the response.
ProductionResume(frame, outcome) ==
    IF outcome.thrown THEN TranslationFailed(outcome.message)
    ELSE TranslationResult(Trim(outcome.text), frame)

\* The outer catch of the debug worker.
UnknownError(message) ==
    ErrorResponse(500, "Translation failed", Str(message), Str("UNKNOWN_ERROR"))

\* env.GEMINI_API_KEY === undefined: an empty credential taken as configured.
ApiKeyUndefined(key) == key.t = "undefined"

\* !env.GEMINI_API_KEY
ApiKeyMissing(key) == ~Truthy(key)

\* Debug worker, steps 1 to 4 and the call of step 5.
DebugFetch(key, table, body, init) ==
    IF ApiKeyMissing(key)
    THEN Responded(ErrorResponse(500, "Server configuration error",
                        Str("GEMINI_API_KEY is not set. Please configure the API key."),
                        Str("API_KEY_MISSING")))
    ELSE IF body.json = "malformed"
    THEN Responded(ErrorResponse(400, "Invalid JSON", Str(SyntaxErrorMessage),
                                 Str("JSON_PARSE_ERROR")))
    ELSE IF body.json = "null" THEN Responded(UnknownError(TypeErrorMessage))
    ELSE IF MissingFields(body)
    THEN Responded(ErrorResponse(400, "Missing required fields",
                        Str("Both \"text\" and \"targetLanguage\" are required"),
                        Str("MISSING_FIELDS")))
    ELSE IF TooLong(body.text)
    THEN Responded(ErrorResponse(400, "Text too long",
                        Str("Text length: " \o ToString(Len(body.text.v))
                            \o ", Max: 1000 characters"),
                        Str("TEXT_TOO_LONG")))
    ELSE LET targetLangName == TargetLangName(table, body.targetLanguage)
         IN  IF init.thrown
             THEN IF Includes(init.message, "API key") \/ Includes(init.message, "api_key")
                  THEN InitFailed(ErrorResponse(500, "Invalid API key",
                           Str("The Gemini API key appears to be invalid. Please check it."),
                           Str("INVALID_API_KEY")), init)
                  ELSE InitFailed(UnknownError(init.message), init)
             ELSE Called(Frame(body.text, targetLangName,
                               WorkerPrompt(targetLangName, body.text)))

\* Debug worker, the catch of step 5: the classification of geminiError.
GeminiError(message) ==
    IF Includes(message, "quota") \/ Includes(message, "rate")
    THEN ErrorResponse(429, "API quota exceeded",
                       Str("Gemini API rate limit reached. Please wait a moment."),
                       Str("QUOTA_EXCEEDED"))
    ELSE IF Includes(message, "API key")
    THEN ErrorResponse(500, "Invalid API key", Str(message), Str("INVALID_API_KEY"))
    ELSE UnknownError(message)

\* Debug worker, from the settling of generateContent to the response.
DebugResume(frame, outcome) ==
    IF outcome.thrown THEN GeminiError(outcome.message)
    ELSE TranslationResult(Trim(outcome.text), frame)

\* express.json(), the server's middleware: a body that is no JSON object or
\* array is answered 400 by Express and the route's handler does not run.
ExpressJson(body) == body.json = "object"

\* Express server, from the request to the call of generateContent.  genAI
\* is the client made when the module loads; init is getGenerativeModel.
ServerPost(table, body, init) ==
    IF ~ExpressJson(body)
    THEN Responded(ErrorResponse(400, "Bad Request", Undefined, Undefined))
    ELSE IF MissingFields(body)
    THEN Responded(ErrorResponse(400, "Missing required fields: text and targetLanguage",
                                 Undefined, Undefined))
    ELSE IF TooLong(body.text)
    THEN Responded(ErrorResponse(400, "Text too long (max 1000 characters)",
                                 Undefined, Undefined))
    ELSE LET targetLangName == TargetLangName(table, body.targetLanguage)
         IN  IF init.thrown THEN InitFailed(TranslationFailed(init.message), init)
             ELSE Called(Frame(body.text, targetLangName,
                               ServerPrompt(targetLangName, body.text)))

\* Express server, from the settling of generateContent to the response.
ServerResume(frame, outcome) ==
    IF outcome.thrown THEN TranslationFailed(outcome.message)
    ELSE TranslationResult(Trim(outcome.text), frame)

\* ------------------------------------------------------------------- state

VARIABLES
    env,            \* env.GEMINI_API_KEY / process.env.GEMINI_API_KEY
    languageNames,  \* the module-level table of each deployment that runs
    genAI,          \* the server's module-level client
    variant,        \* the deployment each request is sent to
    request,        \* the body of each request
    pc,             \* idle, awaiting (generateContent), settled, done
    frame,          \* the handler's locals across the await
    calls,          \* the prompts generateContent was called with
    outcome,        \* what the provider's client did
    responses       \* the responses sent

vars == <<env, languageNames, genAI, variant, request, pc, frame, calls, outcome, responses>>

Variants == {"production", "debug", "server"}

Keys == {Undefined, Str(""), Str("AIza-configured")}

NoRequest == Body("none", Undefined, Undefined)

Tables ==
    [production |-> WorkerLanguageNames, debug |-> WorkerLanguageNames,
     server |-> ServerLanguageNames]

\* new GoogleGenerativeAI(process.env.GEMINI_API_KEY) at the load of server.js
NewClient(key) == [apiKey |-> key]

InitState ==
    /\ env \in Keys
    /\ languageNames = [d \in {variant[r] : r \in Requests} |-> Tables[d]]
    /\ genAI = NewClient(env)
    /\ request = [r \in Requests |-> NoRequest]
    /\ pc = [r \in Requests |-> "idle"]
    /\ frame = [r \in Requests |-> NoFrame]
    /\ calls = [r \in Requests |-> <<>>]
    /\ outcome = [r \in Requests |-> NoOutcome]
    /\ responses = [r \in Requests |-> <<>>]

\* One deployment, which every request is sent to.
Init == (\E d \in Variants : variant = [r \in Requests |-> d]) /\ InitState

\* The three deployments side by side, with the same credential.
InitVariants == variant \in [Requests -> Variants] /\ InitState

\* A catch that logs the error and returns nothing.
DeliverUnlessFailed(sent, response) ==
    IF response.status = 500 THEN sent ELSE Append(sent, response)

\* return new Response(...) / res.json(...)
Deliver(sent, response) == Append(sent, response)

\* text, targetLangName and prompt declared at module level: the continuation
\* reads what the last request to start left there.
SharedLocals(r) ==
    frame[CHOOSE q \in Requests :
            /\ frame[q] # NoFrame
            /\ \A p \in Requests : frame[p] # NoFrame => p <= q]

\* The locals the continuation of request r reads.
Locals(r) == frame[r]

\* The handler of request r ran from the request to its first suspension.
Start(r, body, step) ==
    /\ request' = [request EXCEPT ![r] = body]
    /\ outcome' = [outcome EXCEPT ![r] = step.outcome]
    /\ frame' = [frame EXCEPT ![r] = step.frame]
    /\ IF step.responded
       THEN /\ responses' = [responses EXCEPT ![r] = Deliver(@, step.response)]
            /\ pc' = [pc EXCEPT ![r] = "done"]
            /\ UNCHANGED calls
       ELSE /\ calls' = [calls EXCEPT ![r] = Append(@, step.frame.prompt)]
            /\ pc' = [pc EXCEPT ![r] = "awaiting"]
            /\ UNCHANGED responses
    /\ UNCHANGED <<env, languageNames, genAI, variant>>

\* The continuation of request r ran to its response: the await gave it what
\* generateContent and the read of its response returned or threw.
Finish(r, o, response) ==
    /\ outcome' = [outcome EXCEPT ![r] = o]
    /\ responses' = [responses EXCEPT ![r] = Deliver(@, response)]
    /\ pc' = [pc EXCEPT ![r] = "done"]
    /\ UNCHANGED <<env, languageNames, genAI, variant, request, frame, calls>>

ProductionTranslate(r) ==
    /\ pc[r] = "idle" /\ variant[r] = "production"
    /\ \E body \in Bodies, init \in InitOutcomes :
          Start(r, body, ProductionFetch(languageNames.production, body, init))

ProductionContinue(r) ==
    /\ pc[r] = "settled" /\ variant[r] = "production"
    /\ \E o \in GenerateOutcomes : Finish(r, o, ProductionResume(Locals(r), o))

DebugTranslate(r) ==
    /\ pc[r] = "idle" /\ variant[r] = "debug"
    /\ \E body \in Bodies, init \in InitOutcomes :
          Start(r, body, DebugFetch(env, languageNames.debug, body, init))

DebugContinue(r) ==
    /\ pc[r] = "settled" /\ variant[r] = "debug"
    /\ \E o \in GenerateOutcomes : Finish(r, o, DebugResume(Locals(r), o))

ServerTranslate(r) ==
    /\ pc[r] = "idle" /\ variant[r] = "server"
    /\ \E body \in Bodies, init \in InitOutcomes :
          Start(r, body, ServerPost(languageNames.server, body, init))

ServerContinue(r) ==
    /\ pc[r] = "settled" /\ variant[r] = "server"
    /\ \E o \in GenerateOutcomes : Finish(r, o, ServerResume(Locals(r), o))

\* The provider: the promise of generateContent settles, and the handler
\* that awaits it can be resumed.
GenerateContent(r) ==
    /\ pc[r] = "awaiting"
    /\ pc' = [pc EXCEPT ![r] = "settled"]
    /\ UNCHANGED <<env, languageNames, genAI, variant, request, frame, calls, outcome,
                   responses>>

Continue(r) == ProductionContinue(r) \/ DebugContinue(r) \/ ServerContinue(r)

Next ==
    \E r \in Requests :
        \/ ProductionTranslate(r)
        \/ ProductionContinue(r)
        \/ DebugTranslate(r)
        \/ DebugContinue(r)
        \/ ServerTranslate(r)
        \/ ServerContinue(r)
        \/ GenerateContent(r)

Spec == Init /\ [][Next]_vars

SpecVariants == InitVariants /\ [][Next]_vars

\* The event loop runs the continuation of a settled promise.
FairSpec == Spec /\ \A r \in Requests : WF_vars(Continue(r))

\* ------------------------------------------------------------------ claims

Started(r) == pc[r] # "idle"

Answered(r) == pc[r] = "done" /\ Len(responses[r]) = 1

TheResponse(r) == responses[r][1]

\* Request r was answered with this status and this errorCode.
AnsweredWith(r, status, errorCode) ==
    /\ Answered(r)
    /\ TheResponse(r).status = status
    /\ TheResponse(r).errorCode = Str(errorCode)

ParseFails(body) == body.json = "malformed"

\* The parsed body has no truthy text or no truthy targetLanguage; a body
\* that is null has neither.
FieldsFail(body) ==
    /\ body.json \in {"null", "object"}
    /\ body.json = "null" \/ ~Truthy(body.text) \/ ~Truthy(body.targetLanguage)

LengthFails(body) == body.text.t = "string" /\ Len(body.text.v) > 1000

KeyFails == ~Truthy(env)

ValidBody(body) == ~ParseFails(body) /\ ~FieldsFail(body) /\ ~LengthFails(body)

ValidationCodes == {"JSON_PARSE_ERROR", "MISSING_FIELDS", "TEXT_TOO_LONG", "API_KEY_MISSING"}

C2_MissingFieldsIs400 ==
    \A r \in Requests :
        Started(r) /\ ~KeyFails /\ FieldsFail(request[r]) =>
            /\ Answered(r)
            /\ TheResponse(r).status = 400
            /\ variant[r] = "debug" => TheResponse(r).errorCode = Str("MISSING_FIELDS")

C4_NoCredentialNoCall ==
    \A r \in Requests :
        Started(r) /\ KeyFails /\ ValidBody(request[r]) =>
            /\ calls[r] = <<>>
            /\ AnsweredWith(r, 500, "API_KEY_MISSING")

\* C5, as stated, where a credential is configured: a request whose body is
\* malformed, misses a field or has a text longer than 1000 is answered 400
\* and generateContent is not called for it.
C5_InputErrorsAre400 ==
    \A r \in Requests :
        Started(r) /\ ~KeyFails /\ ~ValidBody(request[r]) =>
            /\ calls[r] = <<>>
            /\ Answered(r)
            /\ TheResponse(r).status = 400

\* The display name of a targetLanguage, as the claim has it: the table's
\* name for a key of the table, the string itself for any other.
DisplayName(table, targetLanguage) ==
    IF targetLanguage \in DOMAIN table THEN table[targetLanguage] ELSE targetLanguage

\* C6, as stated: the name in the prompt and the targetLanguage of the
\* success response are the table's name for a key of the table and the
\* input string for every other string.
C6_LookupWithPassThrough ==
    \A r \in Requests :
        Len(calls[r]) > 0 =>
            LET name == DisplayName(Tables[variant[r]], request[r].targetLanguage.v)
            IN  /\ Includes(calls[r][1],
                            "Translate the following text to " \o name \o ". Only provide")
                /\ Answered(r) /\ TheResponse(r).status = 200 =>
                      TheResponse(r).targetLanguage = Str(name)

\* C7, as stated: in the debug worker a failure of generateContent whose
\* message contains "API key" is answered 500 INVALID_API_KEY, whatever else
\* the message contains, and one whose message contains "quota" or "rate"
\* and not "API key" is answered 429 QUOTA_EXCEEDED.
C7_CredentialFailureIsInvalidKey ==
    \A r \in Requests :
        /\ variant[r] = "debug" /\ pc[r] = "done"
        /\ outcome[r].from = "generateContent" /\ outcome[r].thrown
        => LET message == outcome[r].message
           IN  IF Includes(message, "API key") THEN AnsweredWith(r, 500, "INVALID_API_KEY")
               ELSE IF Includes(message, "quota") \/ Includes(message, "rate")
               THEN AnsweredWith(r, 429, "QUOTA_EXCEEDED")
               ELSE TRUE

\* A provider failure of request r was answered as a failure nothing
\* classifies: 500, details the error's message.
Unclassified(r) ==
    TheResponse(r).errorCode.v \notin {"QUOTA_EXCEEDED", "INVALID_API_KEY"}

\* At most one response and at most one call of generateContent for every
\* request, a response exactly when the handler is done, and every failure
\* of the provider's client answered with an error.
OneResponseOneCall(r) ==
    /\ Len(responses[r]) <= 1
    /\ Len(calls[r]) <= 1
    /\ pc[r] = "done" <=> Len(responses[r]) = 1
    /\ pc[r] = "done" /\ outcome[r].thrown => TheResponse(r).status >= 400

\* C8, as stated, the part a finite run refutes: one response and one call
\* at most, and a provider failure that nothing classifies is answered
\* UNKNOWN_ERROR/500 with details the underlying message, in every variant.
C8_UnknownErrorEverywhere ==
    \A r \in Requests :
        /\ OneResponseOneCall(r)
        /\ pc[r] = "done" /\ outcome[r].thrown /\ Unclassified(r) =>
              /\ TheResponse(r).status = 500
              /\ TheResponse(r).details = Str(outcome[r].message)
              /\ TheResponse(r).errorCode = Str("UNKNOWN_ERROR")

C8_Surfaced ==
    \A r \in Requests :
        /\ OneResponseOneCall(r)
        /\ pc[r] = "done" /\ outcome[r].thrown /\ Unclassified(r) =>
              /\ TheResponse(r).status = 500
              /\ TheResponse(r).details = Str(outcome[r].message)
              /\ TheResponse(r).errorCode =
                    IF variant[r] = "debug" THEN Str("UNKNOWN_ERROR") ELSE Undefined

\* C8, amended: on every path a request gets exactly one response once the
\* provider call has returned or thrown, generateContent is called at most
\* once for it, and a provider failure that nothing classifies is answered
\* 500 with details the underlying message, with errorCode UNKNOWN_ERROR by
\* the debug worker and with no errorCode by the production worker and the
\* server, which set none.
C8_ExactlyOneResponse ==
    /\ []C8_Surfaced
    /\ \A r \in Requests : (pc[r] = "settled") ~> Answered(r)

\* A request whose generateContent threw a message nothing classifies was
\* answered UNKNOWN_ERROR, after one call.
C8_Witness ==
    \E r \in Requests :
        /\ outcome[r].from = "generateContent" /\ outcome[r].message = "fetch failed"
        /\ Len(calls[r]) = 1
        /\ AnsweredWith(r, 500, "UNKNOWN_ERROR")

\* The response of a handler that runs alone: a function of the variant, the
\* credential, the body and the outcome of the provider's client.
Alone(d, key, body, o) ==
    LET init == IF o.from = "init" THEN o ELSE InitOk
        step == CASE d = "production" -> ProductionFetch(Tables.production, body, init)
                  [] d = "debug" -> DebugFetch(key, Tables.debug, body, init)
                  [] d = "server" -> ServerPost(Tables.server, body, init)
    IN  IF step.responded THEN step.response
        ELSE CASE d = "production" -> ProductionResume(step.frame, o)
               [] d = "debug" -> DebugResume(step.frame, o)
               [] d = "server" -> ServerResume(step.frame, o)

\* C9: whatever the interleaving of the requests, the response to each is
\* the one its handler gives when it runs alone on that request's body, the
\* credential and that request's provider outcome, two requests with the
\* same body and outcome get the same response, and no request changes the
\* language table or the provider client.
C9_NoInterference ==
    /\ \A d \in DOMAIN languageNames : languageNames[d] = Tables[d]
    /\ genAI = NewClient(env)
    /\ \A r \in Requests :
          pc[r] = "done" =>
              responses[r] = <<Alone(variant[r], env, request[r], outcome[r])>>
    /\ \A r, q \in Requests :
          /\ pc[r] = "done" /\ pc[q] = "done"
          /\ request[r] = request[q] /\ outcome[r] = outcome[q]
          => responses[r] = responses[q]

\* A request was answered with a translation while another request, with
\* another targetLanguage, was suspended at its provider call.
C9_Witness ==
    \E r, q \in Requests :
        /\ Answered(r) /\ TheResponse(r).status = 200
        /\ pc[q] \in {"awaiting", "settled"}
        /\ frame[q].targetLangName # frame[r].targetLangName

\* C10, as stated, on the path where every variant succeeds (a credential is
\* configured, the body passes the validation and the provider returns a
\* text): two requests with the same body and the same provider outcome, sent
\* to any two of the three variants, get the same status, the same sourceText
\* and the same targetLanguage.
C10_SameContract ==
    \A r, q \in Requests :
        /\ pc[r] = "done" /\ pc[q] = "done"
        /\ request[r] = request[q] /\ outcome[r] = outcome[q]
        /\ ~KeyFails /\ ValidBody(request[r])
        /\ outcome[r].from = "generateContent" /\ ~outcome[r].thrown
        => /\ TheResponse(r).status = TheResponse(q).status
           /\ TheResponse(r).sourceText = TheResponse(q).sourceText
           /\ TheResponse(r).targetLanguage = TheResponse(q).targetLanguage

====
